---- MODULE Spec2Model ----
(***************************************************************************)
(* Battle relay server (tools/battle_relay_server.py): the room registry,  *)
(* the join / auto-matchmaking algorithm, departure clean-up and payload   *)
(* forwarding, with the asyncio rooms_lock that serialises them.           *)
(*                                                                         *)
(* A connection is identified by the identity of its Client object, i.e.   *)
(* by the value id(client) that the auto-host key is derived from.  A      *)
(* closed connection's identity may be taken again by a later connection   *)
(* (CPython reuses the address of a freed object), which is what Connect   *)
(* on a closed identity models; the other identities model fresh ones.     *)
(*                                                                         *)
(* None is modelled by 0 for a Client reference and by "" for client.room  *)
(* and client.role (handle_client never passes an empty room or role).     *)
(* The timestampMs fields of the envelopes are wall-clock values and are   *)
(* left out.                                                               *)
(*                                                                         *)
(* The handlers are asyncio tasks of one event loop: a handler runs        *)
(* without interruption from one suspending await to the next.  A handler  *)
(* that finds rooms_lock free enters its critical section in the step that *)
(* reads the line; one that finds it held queues on it.  Every send_json   *)
(* ends in `await drain()`, which suspends the handler when the transport  *)
(* is paused and returns at once when it is not: after each envelope it    *)
(* writes inside a critical section the handler may rest, still holding    *)
(* the lock, or go on; the other handlers take their steps meanwhile.  The *)
(* replies that need no lock (pong, unknown op, refused role) are written  *)
(* in the step that reads the line, whoever holds the lock.                *)
(*                                                                         *)
(* A line longer than the reader's limit makes readline raise, which ends   *)
(* the connection as an I/O error does.  A connection whose first line is  *)
(* an HTTP request is answered by serve_http and closed.  When the server   *)
(* is stopped, asyncio.run cancels the handlers: each one is unwound from  *)
(* the await it is suspended in and runs the `finally` of handle_client.   *)
(*                                                                         *)
(* Spec runs every step with at most MaxOpen connections open at a time;   *)
(* QueueSpec runs all the connections, handlers queued one behind the      *)
(* other, for clients of the named rooms; FairSpec adds the fairness of    *)
(* the event loop, which runs a handler that has been given the lock but   *)
(* does not make a suspended send return.                                  *)
(***************************************************************************)
EXTENDS Integers, Sequences, FiniteSets, TLC

\* ------------------------------------------------------------------ bounds
NumConns == 3
NumNamed == 1
MaxOpen == 2

\* The connection identities.
Conns == 1..NumConns
\* Room names a client may ask for.  A client may pick any name, one that
\* begins with "auto-" included, and among those the key auto matchmaking
\* gives to a host (the server tells it to the host in `joined`).
NamedRooms == {"r" \o ToString(i) : i \in 1..NumNamed}
PrefixRooms == {"auto-lobby"}
\* f"auto-{id(client)}"
AutoKey(c) == "auto-" \o ToString(c)
KeyRooms == {AutoKey(MaxOpen)}
\* The display name connection c asks for in its join lines.
NameOf(c) == "tamer-" \o ToString(c)
Types == {"pin_edge"}
Bodies == {"P2,15,1,1234"}
RoomArgs == NamedRooms \cup PrefixRooms \cup KeyRooms \cup {"auto"}
\* The op of a line that is not a join or a msg.
Ops == {"ping", "pong", "bogus"}
\* What the server answers to a line that is not a JSON object.
BadLines == {"invalid json", "invalid payload"}
\* The roles join_room serves, and the role values a join line may carry
\* (as handle_client normalises them: stripped, in lower case).
Roles == {"host", "join"}
Other(rl) == IF rl = "host" THEN "join" ELSE "host"
RawRoles == Roles \cup {"spectator"}

\* ------------------------------------------------------------------ state
VARIABLES
    rooms,      \* the registry: the dict rooms, in insertion order
    room,       \* room[c]: client.room
    role,       \* role[c]: client.role
    name,       \* name[c]: client.name
    pc,         \* pc[c]: where the handler of connection c is
    req,        \* req[c]: the message the handler is processing
    rooms_lock, \* the holder of rooms_lock, 0 when it is free
    waiters,    \* the handlers queued on rooms_lock, first come first
    todo,       \* the envelopes the holder of rooms_lock has still to write
    sent,       \* the envelopes written by the last step, in order
    stopped,    \* run_server has returned: the server is being stopped
    cancelled   \* the handlers whose task has been cancelled and has not
                \* run since

vars == <<rooms, room, role, name, pc, req, rooms_lock, waiters, todo, sent, stopped, cancelled>>

\* ------------------------------------------------------------- data types
\* Client.name default of handle_client: f"peer-{addr}".
DefaultName(c) == "peer-" \o ToString(c)

\* rn.startswith("auto-")
StartsWithAuto(k) == Len(k) >= 5 /\ SubSeq(k, 1, 5) = "auto-"

\* RoomState(): both slots None.
RoomState == [host |-> 0, join |-> 0]

\* One envelope written to connection `to` by send_json.
Env(to, op, a, b) == [to |-> to, op |-> op, a |-> a, b |-> b]

NoReq == [op |-> "", room |-> "", role |-> "", name |-> "", type |-> "", body |-> ""]
JoinReq(rn, rl, nm) == [op |-> "join", room |-> rn, role |-> rl, name |-> nm, type |-> "", body |-> ""]
MsgReq(t, b) == [op |-> "msg", room |-> "", role |-> "", name |-> "", type |-> t, body |-> b]
CloseReq == [op |-> "close", room |-> "", role |-> "", name |-> "", type |-> "", body |-> ""]
HttpReq == [op |-> "http", room |-> "", role |-> "", name |-> "", type |-> "", body |-> ""]

\* --------------------------------------------------- the dict `rooms`
\* Position of key k in the dict, 0 when absent.
KeyIndex(rs, k) ==
    IF \E i \in 1..Len(rs) : rs[i].key = k
    THEN CHOOSE i \in 1..Len(rs) : rs[i].key = k
    ELSE 0

HasKey(rs, k) == KeyIndex(rs, k) # 0

\* rooms[k] as a RoomState value (k present).
RoomVal(rs, k) == [host |-> rs[KeyIndex(rs, k)].host, join |-> rs[KeyIndex(rs, k)].join]

\* rooms[k] = v: an existing key keeps its position, a new key goes last.
RoomsSet(rs, k, v) ==
    LET e == [key |-> k, host |-> v.host, join |-> v.join]
    IN  IF HasKey(rs, k) THEN [rs EXCEPT ![KeyIndex(rs, k)] = e] ELSE Append(rs, e)

\* rooms.pop(k, None)
RoomsPop(rs, k) ==
    IF HasKey(rs, k)
    THEN SubSeq(rs, 1, KeyIndex(rs, k) - 1) \o SubSeq(rs, KeyIndex(rs, k) + 1, Len(rs))
    ELSE rs

\* The slot `rl` of a room value.
Slot(rv, rl) == IF rl = "host" THEN rv.host ELSE rv.join

SetSlot(rv, rl, c) == IF rl = "host" THEN [rv EXCEPT !.host = c] ELSE [rv EXCEPT !.join = c]

PeerFor_OwnSlot(rv, rl) ==
    IF rl = "host" THEN rv.host
    ELSE IF rl = "join" THEN rv.join
    ELSE 0

\* RoomState.peer_for
PeerFor(rv, rl) ==
    IF rl = "host" THEN rv.join
    ELSE IF rl = "join" THEN rv.host
    ELSE 0

\* The core state the procedures below transform.
Core == [rooms |-> rooms, room |-> room, role |-> role, name |-> name]


\* ------------------------------------------------ join_room, lines 89-119
\* The auto-join scan: the first key, in dict order, with the auto prefix,
\* a host and no joiner; "" when there is none.
FirstAvailable(rs) ==
    LET ok(i) == StartsWithAuto(rs[i].key) /\ rs[i].host # 0 /\ rs[i].join = 0
        S == {i \in 1..Len(rs) : ok(i)}
    IN  IF S = {} THEN ""
        ELSE rs[CHOOSE i \in S : \A j \in S : i <= j].key

\* Lines 89-112: the room a join resolves to.  err is the error message
\* ("" when there is none), key the resolved room_name, rooms the dict after
\* the lazy creation.
ResolveRoom(rs, c, rn, rl) ==
    IF rn = "auto" THEN
        IF rl = "host" THEN
            [err |-> "", key |-> AutoKey(c), rooms |-> RoomsSet(rs, AutoKey(c), RoomState)]
        ELSE IF rl = "join" THEN
            IF FirstAvailable(rs) = ""
            THEN [err |-> "No hosts currently waiting for a match", key |-> "", rooms |-> rs]
            ELSE [err |-> "", key |-> FirstAvailable(rs), rooms |-> rs]
        ELSE [err |-> "invalid role for auto matchmaking", key |-> "", rooms |-> rs]
    ELSE
        [err |-> "", key |-> rn,
         rooms |-> IF HasKey(rs, rn) THEN rs ELSE RoomsSet(rs, rn, RoomState)]

\* Lines 114-119: the slot-occupancy check; "" when the join may proceed.
SlotCheck(rv, rl, c) ==
    IF rl = "host" /\ rv.host # 0 /\ rv.host # c THEN "host slot already occupied"
    ELSE IF rl = "join" /\ rv.join # 0 /\ rv.join # c THEN "join slot already occupied"
    ELSE ""

\* ------------------------------------------ remove_client_locked, 139-164
ClearClient_RoomOnly(st, c) ==
    [st EXCEPT !.room = [st.room EXCEPT ![c] = ""]]

\* client.room = None; client.role = None (lines 146-147 and 158-159).
ClearClient(st, c) ==
    [st EXCEPT !.room = [st.room EXCEPT ![c] = ""],
               !.role = [st.role EXCEPT ![c] = ""]]

DepartedPeer_ClearedSlot(rv, rl, c) ==
    IF Slot(rv, rl) # c THEN 0 ELSE Slot(SetSlot(rv, rl, 0), rl)

\* Lines 150-156: the peer captured when c leaves slot rl of room rv; 0 when
\* c is not the occupant of that slot or the other slot is empty.
DepartedPeer(rv, rl, c) ==
    IF rl = "host" /\ rv.host = c THEN rv.join
    ELSE IF rl = "join" /\ rv.join = c THEN rv.host
    ELSE 0

\* Lines 150-156: the room after c has left slot rl.
DepartedRoom(rv, rl, c) ==
    IF rl = "host" /\ rv.host = c THEN [rv EXCEPT !.host = 0]
    ELSE IF rl = "join" /\ rv.join = c THEN [rv EXCEPT !.join = 0]
    ELSE rv

\* Lines 160-161: a room left with both slots empty is popped from the dict.
RoomsAfterDeparture(rs, k, rv) ==
    IF rv.host = 0 /\ rv.join = 0 THEN RoomsPop(rs, k) ELSE RoomsSet(rs, k, rv)

RemoveClientLocked_KeepFields(st, c) ==
    LET k == st.room[c]
        rl == st.role[c]
        rv == RoomVal(st.rooms, k)
    IN  IF k = "" \/ rl = "" THEN [st |-> st, peer |-> 0]
        ELSE IF ~HasKey(st.rooms, k) THEN [st |-> ClearClient(st, c), peer |-> 0]
        ELSE [st |-> [st EXCEPT
                        !.rooms = RoomsAfterDeparture(st.rooms, k, DepartedRoom(rv, rl, c))],
              peer |-> DepartedPeer(rv, rl, c)]

\* The core state after the departure of c, and the peer to notify (0: none).
RemoveClientLocked(st, c) ==
    LET k == st.room[c]
        rl == st.role[c]
        rv == RoomVal(st.rooms, k)
    IN  IF k = "" \/ rl = "" THEN [st |-> st, peer |-> 0]
        ELSE IF ~HasKey(st.rooms, k) THEN [st |-> ClearClient(st, c), peer |-> 0]
        ELSE [st |-> [ClearClient(st, c) EXCEPT
                        !.rooms = RoomsAfterDeparture(st.rooms, k, DepartedRoom(rv, rl, c))],
              peer |-> DepartedPeer(rv, rl, c)]

\* notify_peer_left
NotifyPeerLeft(peer, reason) ==
    IF peer = 0 THEN <<>> ELSE <<Env(peer, "peer_left", reason, "")>>

\* notify_ready (lines 75-80) on the room object of the join, whose
\* occupants' names are read from the core state st.
NotifyReady(st, rv) ==
    IF rv.host = 0 \/ rv.join = 0 THEN <<>>
    ELSE <<Env(rv.host, "ready", st.name[rv.join], ""),
           Env(rv.join, "ready", st.name[rv.host], "")>>

\* ------------------------------------------------ join_room, lines 87-123
JoinPrefix_DetachFirst(st, c, q) ==
    LET rm == RemoveClientLocked(st, c)
        res == ResolveRoom(rm.st.rooms, c, q.room, q.role)
        st1 == [rm.st EXCEPT !.rooms = res.rooms]
        fail(e) == [err |-> e, key |-> res.key, peer |-> 0, st |-> st1]
    IN  IF res.err # "" THEN fail(res.err)
        ELSE IF SlotCheck(RoomVal(res.rooms, res.key), q.role, c) # ""
        THEN fail(SlotCheck(RoomVal(res.rooms, res.key), q.role, c))
        ELSE [err |-> "", key |-> res.key, peer |-> rm.peer, st |-> st1]

\* Resolution, slot check and the departure from the previous slot.
\* key is the resolved room_name, peer the occupant left behind (0: none).
JoinPrefix(st, c, q) ==
    LET res == ResolveRoom(st.rooms, c, q.room, q.role)
        st1 == [st EXCEPT !.rooms = res.rooms]
        fail(e) == [err |-> e, key |-> res.key, peer |-> 0, st |-> st1]
    IN  IF res.err # "" THEN fail(res.err)
        ELSE IF SlotCheck(RoomVal(res.rooms, res.key), q.role, c) # ""
        THEN fail(SlotCheck(RoomVal(res.rooms, res.key), q.role, c))
        ELSE
            LET rm == RemoveClientLocked(st1, c)
            IN  [err |-> "", key |-> res.key, peer |-> rm.peer, st |-> rm.st]

\* The room object the local variable `room` of join_room refers to after
\* the departure: the dict's object under key while the key is still there,
\* and otherwise the object the departure has emptied and popped.
LocalRoom(rs, key) == IF HasKey(rs, key) THEN RoomVal(rs, key) ELSE RoomState

\* Lines 125-136: attach, acknowledge, pairing check.  The slot is written
\* into the local room object, which is in the dict only while its key is.
JoinSuffix(st, c, key, rl, nm) ==
    LET rv == SetSlot(LocalRoom(st.rooms, key), rl, c)
        st2 == [rooms |-> IF HasKey(st.rooms, key)
                          THEN RoomsSet(st.rooms, key, rv) ELSE st.rooms,
                room |-> [st.room EXCEPT ![c] = key],
                role |-> [st.role EXCEPT ![c] = rl],
                name |-> [st.name EXCEPT ![c] = nm]]
    IN  [st |-> st2,
         out |-> <<Env(c, "joined", key, rl)>> \o NotifyReady(st2, rv)]

\* join_room as a whole: the core state after it and everything it sends.
JoinRoom(st, c, q) ==
    LET pre == JoinPrefix(st, c, q)
    IN  IF pre.err # "" THEN [st |-> pre.st, out |-> <<Env(c, "error", pre.err, "")>>]
        ELSE LET suf == JoinSuffix(pre.st, c, pre.key, q.role, q.name)
             IN  [st |-> suf.st,
                  out |-> NotifyPeerLeft(pre.peer, "switched room") \o suf.out]

\* --------------------------------------------- forward_to_peer, 172-193
\* The envelopes forward_to_peer sends for message q of connection c.
ForwardOut(st, c, q) ==
    IF st.room[c] = "" \/ st.role[c] = "" THEN <<Env(c, "error", "join room first", "")>>
    ELSE IF ~HasKey(st.rooms, st.room[c]) THEN <<Env(c, "error", "room missing", "")>>
    ELSE IF PeerFor(RoomVal(st.rooms, st.room[c]), st.role[c]) = 0
    THEN <<Env(c, "error", "peer not connected", "")>>
    ELSE <<Env(PeerFor(RoomVal(st.rooms, st.room[c]), st.role[c]), "msg", q.type, q.body)>>


\* ------------------------------------------------------------ rooms_lock
\* asyncio.Lock.  acquire() takes the lock at once, without yielding, when
\* it is not held and every waiter in its queue has been cancelled;
\* otherwise the caller queues.  lk is the holder (0: none), ws the queue,
\* cn the cancelled handlers.
CanAcquire(lk, ws, cn) == lk = 0 /\ \A i \in 1..Len(ws) : ws[i] \in cn

LockFree == CanAcquire(rooms_lock, waiters, cancelled)

\* release(), and the hand-over by a waiter that is cancelled while the
\* lock is not held: the first waiter of the queue ws is woken, and owns the
\* lock from then on (a later caller queues behind it), unless it has been
\* cancelled: then nobody is woken and the lock is left free.
Release(ws, cn) ==
    IF ws = <<>> \/ Head(ws) \in cn
    THEN [lock |-> 0, waiters |-> ws]
    ELSE [lock |-> Head(ws), waiters |-> Tail(ws)]

\* The envelopes still to write once the handler of c has left its critical
\* section: its own are dropped with it.
TodoWithout(c) == IF rooms_lock = c THEN <<>> ELSE todo

\* The handler of c, done with request q, leaves its `async with rooms_lock`
\* block, the queue being ws: it goes back to reading its next line or,
\* after the departure of an ended connection (lines 305-307) or the answer
\* to an HTTP request (line 263), closes the writer and ends.
Finish(c, q, ws) ==
    /\ pc' = [pc EXCEPT ![c] = IF q.op \in {"close", "http"} THEN "closed" ELSE "idle"]
    /\ req' = [req EXCEPT ![c] = NoReq]
    /\ rooms_lock' = Release(ws, cancelled \ {c}).lock
    /\ waiters' = Release(ws, cancelled \ {c}).waiters
    /\ todo' = <<>>

\* send_json inside the critical section: the handler of c, processing q,
\* writes the envelopes of `out` in order.  After each write it awaits
\* drain(), which suspends it when the transport is paused and returns at
\* once when it is not: the handler either rests, holding the lock, in the
\* drain of some envelope, the `least`-th at the earliest, with the later
\* ones still to write, or it writes them all and leaves.  lbl is where it
\* rests, ws the queue of the lock.
Write(c, q, out, least, lbl, ws) ==
    \/ \E k \in least..Len(out) :
          /\ k >= 1
          /\ sent' = SubSeq(out, 1, k)
          /\ todo' = SubSeq(out, k + 1, Len(out))
          /\ pc' = [pc EXCEPT ![c] = lbl]
          /\ req' = [req EXCEPT ![c] = q]
          /\ rooms_lock' = c
          /\ waiters' = ws
    \/ /\ sent' = out
       /\ Finish(c, q, ws)

\* The handler of c cannot take the lock, whose holder is lk and whose queue
\* is ws, and queues with its message q.
Enqueue(c, q, lk, ws) ==
    /\ ~CanAcquire(lk, ws, cancelled \ {c})
    /\ pc' = [pc EXCEPT ![c] = "lock"]
    /\ req' = [req EXCEPT ![c] = q]
    /\ rooms_lock' = lk
    /\ waiters' = Append(ws, c)
    /\ todo' = TodoWithout(c)
    /\ UNCHANGED <<rooms, room, role, name>>

SetCore(st) ==
    /\ rooms' = st.rooms
    /\ room' = st.room
    /\ role' = st.role
    /\ name' = st.name

\* ---------------------------------------------------------------- actions
Init ==
    /\ rooms = <<>>
    /\ room = [c \in Conns |-> ""]
    /\ role = [c \in Conns |-> ""]
    /\ name = [c \in Conns |-> DefaultName(c)]
    /\ pc = [c \in Conns |-> "closed"]
    /\ req = [c \in Conns |-> NoReq]
    /\ rooms_lock = 0
    /\ waiters = <<>>
    /\ todo = <<>>
    /\ sent = <<>>
    /\ stopped = FALSE
    /\ cancelled = {}

\* handle_client, lines 250-254: a connection is accepted; its handler waits
\* for the first line.
Connect(c) ==
    /\ ~stopped
    /\ pc[c] = "closed"
    /\ pc' = [pc EXCEPT ![c] = "new"]
    /\ room' = [room EXCEPT ![c] = ""]
    /\ role' = [role EXCEPT ![c] = ""]
    /\ name' = [name EXCEPT ![c] = DefaultName(c)]
    /\ sent' = <<>>
    /\ UNCHANGED <<rooms, req, rooms_lock, waiters, todo, stopped, cancelled>>

\* join_room, lines 88-136, run by the holder of the lock for message q:
\* resolve, check, leave the previous slot, attach, acknowledge, pairing
\* check.  An error is the only envelope of a refused join.  With a peer
\* left behind the handler may rest in the peer_left send, before it
\* attaches (JoinAttach); past that send it attaches and writes joined
\* before it can rest again.
JoinBody(c, q) ==
    \E pre \in {JoinPrefix(Core, c, q)} :
        IF pre.err # "" THEN
            /\ SetCore(pre.st)
            /\ Write(c, q, <<Env(c, "error", pre.err, "")>>, 1, "send", waiters)
        ELSE
            \/ /\ pre.peer # 0
               /\ SetCore(pre.st)
               /\ sent' = NotifyPeerLeft(pre.peer, "switched room")
               /\ todo' = <<>>
               /\ pc' = [pc EXCEPT ![c] = "attach"]
               /\ req' = [req EXCEPT ![c] = [q EXCEPT !.room = pre.key]]
               /\ rooms_lock' = c
               /\ UNCHANGED waiters
            \/ \E suf \in {JoinSuffix(pre.st, c, pre.key, q.role, q.name)} :
                  /\ SetCore(suf.st)
                  /\ Write(c, q, NotifyPeerLeft(pre.peer, "switched room") \o suf.out,
                           Len(NotifyPeerLeft(pre.peer, "switched room")) + 1, "send", waiters)

\* forward_to_peer, lines 173-193, run by the holder of the lock: the error
\* or the msg envelope is written inside the lock.
ForwardBody(c, q) ==
    /\ \E out \in {ForwardOut(Core, c, q)} :
          Write(c, q, out, 1, IF out[1].op = "msg" THEN "fwd" ELSE "send", waiters)
    /\ UNCHANGED <<rooms, room, role, name>>

\* The names after a step of the handler of c: the Client object of a
\* handler that has ended is gone, and its name with it.
NameAfter(c) == IF pc'[c] = "closed" THEN [name EXCEPT ![c] = DefaultName(c)] ELSE name

\* remove_client, lines 167-169: the departure of an ended connection
\* under the lock, whose queue is ws.  out is what the handler has written
\* in this step before it took the lock.
RemoveBody(c, out, ws) ==
    /\ \E rm \in {RemoveClientLocked(Core, c)} :
          /\ rooms' = rm.st.rooms /\ room' = rm.st.room /\ role' = rm.st.role
          /\ Write(c, CloseReq, out \o NotifyPeerLeft(rm.peer, "peer disconnected"),
                   Len(out) + 1, "send", ws)
    /\ name' = NameAfter(c)

\* handle_client, lines 300-309: the handler of c has left its read loop,
\* having written out in this step; lk is the holder of the lock and ws its
\* queue.  A client with a room runs the departure under the lock; one
\* without is closed at once.
EndConnection(c, out, lk, ws) ==
    IF room[c] = ""
    THEN /\ pc' = [pc EXCEPT ![c] = "closed"]
         /\ name' = [name EXCEPT ![c] = DefaultName(c)]
         /\ req' = [req EXCEPT ![c] = NoReq]
         /\ sent' = out
         /\ rooms_lock' = lk
         /\ waiters' = ws
         /\ todo' = TodoWithout(c)
         /\ UNCHANGED <<rooms, room, role>>
    ELSE IF CanAcquire(lk, ws, cancelled \ {c}) THEN RemoveBody(c, out, ws)
    ELSE Enqueue(c, CloseReq, lk, ws) /\ sent' = out

\* The handler of c runs: no cancellation of its task is pending.
Runs(c) == c \notin cancelled /\ UNCHANGED <<stopped, cancelled>>

\* handle_client, line 256: the handler of c is in readline, waiting for the
\* first line of the connection or for a later one.
Reading(c) == pc[c] \in {"new", "idle"}

\* A reply that needs no lock: the handler writes out and reads on.
Reply(c, out) ==
    /\ Runs(c)
    /\ sent' = out
    /\ pc' = [pc EXCEPT ![c] = "idle"]
    /\ UNCHANGED <<rooms, room, role, name, req, rooms_lock, waiters, todo>>

\* handle_client, lines 280-288: a join line is read, with room rn, role rl
\* and name nm as lines 281-283 normalise them.  A role other than
\* host/join is refused at once; otherwise join_room is entered.
RecvJoin(c, rn, rl, nm) ==
    /\ Reading(c) /\ Runs(c)
    /\ IF rl \notin {"host", "join"}
       THEN Reply(c, <<Env(c, "error", "role must be host or join", "")>>)
       ELSE IF LockFree THEN JoinBody(c, JoinReq(rn, rl, nm))
       ELSE Enqueue(c, JoinReq(rn, rl, nm), rooms_lock, waiters) /\ sent' = <<>>

\* handle_client, lines 294-296: a msg line is read, forward_to_peer is
\* entered.
RecvMsg(c, t, b) ==
    /\ Reading(c) /\ Runs(c)
    /\ IF LockFree THEN ForwardBody(c, MsgReq(t, b))
       ELSE Enqueue(c, MsgReq(t, b), rooms_lock, waiters) /\ sent' = <<>>

\* handle_client, lines 269-277: a line that is not JSON, or not a JSON
\* object, is answered with an error.
RecvInvalid(c, why) ==
    /\ Reading(c)
    /\ Reply(c, <<Env(c, "error", why, "")>>)

\* handle_client, lines 289-293 and 297: ping, pong and an unknown op.
RecvOther(c, op) ==
    /\ Reading(c)
    /\ Reply(c, IF op = "ping" THEN <<Env(c, "pong", "", "")>>
                ELSE IF op = "pong" THEN <<>>
                ELSE <<Env(c, "error", "unknown op: " \o op, "")>>)

\* handle_client, lines 256-258 and 298-309: the connection ends.  readline
\* returns no bytes at the end of the input and raises on an I/O error and
\* on a line longer than the limit of the reader (64 KiB, the default of
\* start_server at line 313, below MAX_LINE_BYTES: the test of line 266 is
\* never true).  In each case the handler writes nothing and leaves its
\* loop.
Disconnect(c) ==
    /\ Reading(c) /\ Runs(c)
    /\ EndConnection(c, <<>>, rooms_lock, waiters)

\* serve_http, lines 230-242: the page, filled with the number of registered
\* rooms and of occupied slots read under the lock.
HttpResponse(c) ==
    Env(c, "http", ToString(Len(rooms)),
        ToString(Cardinality({p \in (1..Len(rooms)) \X Roles : Slot(rooms[p[1]], p[2]) # 0})))

\* handle_client, lines 260-263, and serve_http, lines 197-246: the first
\* line of a connection begins with "GET " or "HTTP/".  When the page
\* template cannot be read the handler answers nothing and takes no lock;
\* otherwise it reads the registry under rooms_lock, queueing for it when it
\* is held, and writes the page once it has left the lock.  Either way the
\* handler ends and the connection is closed.
RecvHttp(c) ==
    /\ pc[c] = "new" /\ Runs(c)
    /\ \/ /\ pc' = [pc EXCEPT ![c] = "closed"]
          /\ sent' = <<>>
          /\ UNCHANGED <<rooms, room, role, name, req, rooms_lock, waiters, todo>>
       \/ /\ LockFree
          /\ pc' = [pc EXCEPT ![c] = "closed"]
          /\ sent' = <<HttpResponse(c)>>
          /\ UNCHANGED <<rooms, room, role, name, req, rooms_lock, waiters, todo>>
       \/ Enqueue(c, HttpReq, rooms_lock, waiters) /\ sent' = <<>>

\* A queued handler is woken with the lock and runs serve_http's critical
\* section, then writes the page and ends.
ServeHttp(c) ==
    /\ pc[c] = "lock" /\ rooms_lock = c /\ req[c].op = "http" /\ Runs(c)
    /\ sent' = <<HttpResponse(c)>>
    /\ Finish(c, req[c], waiters)
    /\ UNCHANGED <<rooms, room, role, name>>

\* A queued handler is woken with the lock and runs join_room's body.
JoinBegin(c) ==
    /\ pc[c] = "lock" /\ rooms_lock = c /\ req[c].op = "join" /\ Runs(c)
    /\ JoinBody(c, req[c])

\* join_room, lines 125-136, after the peer_left send has returned: attach,
\* acknowledge, pairing check.
JoinAttach(c) ==
    /\ pc[c] = "attach" /\ rooms_lock = c /\ Runs(c)
    /\ \E suf \in {JoinSuffix(Core, c, req[c].room, req[c].role, req[c].name)} :
          /\ SetCore(suf.st)
          /\ Write(c, req[c], suf.out, 1, "send", waiters)

\* A queued handler is woken with the lock and runs forward_to_peer's body.
Forward(c) ==
    /\ pc[c] = "lock" /\ rooms_lock = c /\ req[c].op = "msg" /\ Runs(c)
    /\ ForwardBody(c, req[c])

\* forward_to_peer: the send of the msg has returned, the lock is released.
ForwardDone(c) ==
    /\ pc[c] = "fwd" /\ rooms_lock = c /\ Runs(c)
    /\ sent' = <<>>
    /\ Finish(c, req[c], waiters)
    /\ UNCHANGED <<rooms, room, role, name>>

\* A send inside join_room, remove_client or an error path of
\* forward_to_peer has returned: the handler writes what it has left.
SendDone(c) ==
    /\ pc[c] = "send" /\ rooms_lock = c /\ Runs(c)
    /\ Write(c, req[c], todo, 1, "send", waiters)
    /\ name' = NameAfter(c)
    /\ UNCHANGED <<rooms, room, role>>

\* A queued handler is woken with the lock and runs the departure.
RemoveClient(c) ==
    /\ pc[c] = "lock" /\ rooms_lock = c /\ req[c].op = "close" /\ Runs(c)
    /\ RemoveBody(c, <<>>, waiters)

\* run_server, lines 316-329, and asyncio.run at line 342: a signal sets
\* stop_event, the server stops listening, run_server returns and
\* asyncio.run cancels the task of every handler that is still running, all
\* in one go, before any of them runs again.
Stop ==
    /\ ~stopped
    /\ stopped' = TRUE
    /\ cancelled' = {c \in Conns : pc[c] # "closed"}
    /\ sent' = <<>>
    /\ UNCHANGED <<rooms, room, role, name, pc, req, rooms_lock, waiters, todo>>

\* The lock and its queue once CancelledError has unwound the handler of c
\* to the `finally` of handle_client.  A handler that rests in a send inside
\* its critical section leaves the `async with` block, which releases the
\* lock; a waiter that had been woken with the lock hands it over; a queued
\* waiter leaves the queue, and wakes the first waiter if the lock is not
\* held (asyncio.Lock.acquire).
Unwind(c) ==
    IF rooms_lock = c THEN Release(waiters, cancelled \ {c})
    ELSE IF pc[c] = "lock"
    THEN IF rooms_lock = 0
         THEN Release(SelectSeq(waiters, LAMBDA w : w # c), cancelled \ {c})
         ELSE [lock |-> rooms_lock, waiters |-> SelectSeq(waiters, LAMBDA w : w # c)]
    ELSE [lock |-> rooms_lock, waiters |-> waiters]

\* The cancelled handler of c runs: CancelledError is raised at the await
\* it is suspended in (readline, the lock, or a drain inside the lock).  It
\* is no Exception: it passes send_json (line 71), serve_http (line 243) and
\* handle_client (line 298), and what the handler had left to do (envelopes
\* to write, the attachment, the queued request) is dropped.  The `finally`
\* of handle_client then runs the departure as for a disconnect.  A handler
\* cancelled inside that departure (queued for it, or resting in its
\* peer_left send) ends there, before line 305: a queued one leaves its
\* slot, room and role as they are.
Cancelled(c) ==
    /\ c \in cancelled
    /\ cancelled' = cancelled \ {c}
    /\ UNCHANGED stopped
    /\ \E un \in {Unwind(c)} :
          IF req[c].op = "close"
          THEN /\ pc' = [pc EXCEPT ![c] = "closed"]
               /\ req' = [req EXCEPT ![c] = NoReq]
               /\ rooms_lock' = un.lock
               /\ waiters' = un.waiters
               /\ todo' = TodoWithout(c)
               /\ sent' = <<>>
               /\ name' = IF room[c] = "" THEN [name EXCEPT ![c] = DefaultName(c)] ELSE name
               /\ UNCHANGED <<rooms, room, role>>
          ELSE EndConnection(c, <<>>, un.lock, un.waiters)

\* The connections that are open.
Open == {c \in Conns : pc[c] # "closed"}

\* Every step of the server, with at most MaxOpen connections open at a
\* time.
Next ==
    \/ \E c \in Conns : Cardinality(Open) < MaxOpen /\ Connect(c)
    \/ \E c \in Conns, rn \in RoomArgs, rl \in RawRoles : RecvJoin(c, rn, rl, NameOf(c))
    \/ \E c \in Conns, t \in Types, b \in Bodies : RecvMsg(c, t, b)
    \/ \E c \in Conns, op \in Ops : RecvOther(c, op)
    \/ \E c \in Conns, why \in BadLines : RecvInvalid(c, why)
    \/ \E c \in Conns : RecvHttp(c)
    \/ \E c \in Conns : Disconnect(c)
    \/ \E c \in Conns : JoinBegin(c)
    \/ \E c \in Conns : JoinAttach(c)
    \/ \E c \in Conns : Forward(c)
    \/ \E c \in Conns : ForwardDone(c)
    \/ \E c \in Conns : SendDone(c)
    \/ \E c \in Conns : RemoveClient(c)
    \/ \E c \in Conns : ServeHttp(c)
    \/ Stop
    \/ \E c \in Conns : Cancelled(c)

Spec == Init /\ [][Next]_vars

\* The steps of the server for clients that use the named rooms only and
\* send join and msg lines until they disconnect, and for HTTP requests,
\* with all the connections open together: up to NumConns - 1 handlers
\* queue on the lock behind its holder.
QueueNext ==
    \/ \E c \in Conns : Connect(c)
    \/ \E c \in Conns, rn \in NamedRooms, rl \in Roles : RecvJoin(c, rn, rl, NameOf(c))
    \/ \E c \in Conns, t \in Types, b \in Bodies : RecvMsg(c, t, b)
    \/ \E c \in Conns : RecvHttp(c)
    \/ \E c \in Conns : Disconnect(c)
    \/ \E c \in Conns : JoinBegin(c)
    \/ \E c \in Conns : JoinAttach(c)
    \/ \E c \in Conns : Forward(c)
    \/ \E c \in Conns : ForwardDone(c)
    \/ \E c \in Conns : SendDone(c)
    \/ \E c \in Conns : RemoveClient(c)
    \/ \E c \in Conns : ServeHttp(c)
    \/ Stop
    \/ \E c \in Conns : Cancelled(c)

QueueSpec == Init /\ [][QueueNext]_vars

\* The connections of the fair specification.
LiveConns == 1..MaxOpen

\* The event loop runs every task that is ready: release() hands the lock to
\* the first waiter, which runs its critical section from then on, and a
\* cancelled task is run to raise CancelledError in it.  Nothing
\* makes a drain() return: send_json sets no timeout, and the handler that
\* writes to a client that has stopped reading stays suspended for as long
\* as that client keeps its connection.
Fairness ==
    \A c \in LiveConns :
        /\ WF_vars(JoinBegin(c))
        /\ WF_vars(Forward(c))
        /\ WF_vars(RemoveClient(c))
        /\ WF_vars(ServeHttp(c))
        /\ WF_vars(Cancelled(c))

\* The steps of the connections of LiveConns, whose clients join named
\* rooms and auto matchmaking as host or join, send msg and ping lines or an
\* HTTP request, and disconnect.
LiveNext ==
    \/ \E c \in LiveConns : Connect(c)
    \/ \E c \in LiveConns, rn \in NamedRooms \cup {"auto"}, rl \in Roles :
          RecvJoin(c, rn, rl, NameOf(c))
    \/ \E c \in LiveConns, t \in Types, b \in Bodies : RecvMsg(c, t, b)
    \/ \E c \in LiveConns : RecvOther(c, "ping")
    \/ \E c \in LiveConns : RecvHttp(c)
    \/ \E c \in LiveConns : Disconnect(c)
    \/ \E c \in LiveConns : JoinBegin(c)
    \/ \E c \in LiveConns : JoinAttach(c)
    \/ \E c \in LiveConns : Forward(c)
    \/ \E c \in LiveConns : ForwardDone(c)
    \/ \E c \in LiveConns : SendDone(c)
    \/ \E c \in LiveConns : RemoveClient(c)
    \/ \E c \in LiveConns : ServeHttp(c)
    \/ Stop
    \/ \E c \in LiveConns : Cancelled(c)

FairSpec == Init /\ [][LiveNext]_vars /\ Fairness


\* ------------------------------------------------------------ vocabulary
\* The envelopes of a sequence of envelopes.
Envs(out) == {out[i] : i \in 1..Len(out)}

\* The envelopes of `out` written to connection c, in order.
SentTo(out, c) == SelectSeq(out, LAMBDA e : e.to = c)

\* Connection c is held in slot rl of the room registered under k.
OccupiesIn(rs, c, k, rl) == HasKey(rs, k) /\ Slot(RoomVal(rs, k), rl) = c

\* Slot rl of the room registered under k is empty (or k is not registered).
SlotEmptyIn(rs, k, rl) == ~HasKey(rs, k) \/ Slot(RoomVal(rs, k), rl) = 0

\* This step is the handler of c entering join_room's critical section for
\* a join of room argument rn with role rl.
IsJoinStep(c, rn, rl) ==
    \/ LockFree /\ RecvJoin(c, rn, rl, NameOf(c))
    \/ JoinBegin(c) /\ req[c].room = rn /\ req[c].role = rl

\* This step is the handler of c entering forward_to_peer's critical
\* section for a msg with type t and body b.
IsForwardStep(c, t, b) ==
    \/ LockFree /\ RecvMsg(c, t, b)
    \/ Forward(c) /\ req[c].type = t /\ req[c].body = b

\* This step is the departure of connection c after the end of its
\* connection, whatever ended it (end of input, I/O error, oversized line,
\* stop of the server).
IsDepartureStep(c) ==
    \/ LockFree /\ room[c] # "" /\ Disconnect(c)
    \/ RemoveClient(c)
    \/ Cancelled(c) /\ room[c] # "" /\ room'[c] = ""

\* What the handler that takes this step sends from here to the end of its
\* critical section: the envelopes the step writes and, when the handler
\* rests in a send, those it has still to write.
Planned == sent' \o todo'

\* The slots of the registry rs that hold connection c.
SlotsOf(rs, c) == {p \in (1..Len(rs)) \X Roles : Slot(rs[p[1]], p[2]) = c}

\* The peer_left envelopes of `out` written to connection d, in order.
PeerLeftTo(out, d) == SelectSeq(out, LAMBDA e : e.to = d /\ e.op = "peer_left")

\* ------------------------------------------------------------------- C1
\* C1: a connection that occupies slot r of room k and joins (k, r) again
\* is sent joined(k, r), still occupies slot r of the room registered under
\* k afterwards, and the occupant of the other slot is sent no peer_left.
C1_IdempotentRejoin ==
    [][\A c \in Conns, k \in NamedRooms, r \in Roles :
         (OccupiesIn(rooms, c, k, r) /\ IsJoinStep(c, k, r))
            => /\ Env(c, "joined", k, r) \in Envs(Planned)
               /\ OccupiesIn(rooms', c, k, r)
               /\ \A e \in Envs(Planned) : e.op # "peer_left"]_vars

\* ------------------------------------------------------------------- C2
\* C2: for every room key k and role r at most one connection has
\* currentRoom = k and currentRole = r.
C2_SlotExclusivity ==
    \A c, d \in Conns :
        (room[c] # "" /\ room[c] = room[d] /\ role[c] = role[d]) => c = d

\* ------------------------------------------------------------------- C3
\* Connections c and d are both inside join_room for slot r of room k, which
\* is empty: c has just been given the lock and d is the next waiter.
Racing(c, d, k, r) ==
    /\ c # d
    /\ rooms_lock = c /\ pc[c] = "lock" /\ waiters # <<>> /\ Head(waiters) = d
    /\ req[c].op = "join" /\ req[c].room = k /\ req[c].role = r
    /\ req[d].op = "join" /\ req[d].room = k /\ req[d].role = r
    /\ SlotEmptyIn(rooms, k, r)

\* C3: of two concurrent joins for the same empty slot, whichever order the
\* lock serves them in, the first is sent joined, the second is sent error
\* and the slot holds the first afterwards.
C3_OneWinner ==
    \A c, d \in Conns, k \in NamedRooms, r \in Roles :
        Racing(c, d, k, r) =>
            LET first == JoinRoom(Core, c, req[c])
                second == JoinRoom(first.st, d, req[d])
            IN  /\ Env(c, "joined", k, r) \in Envs(first.out)
                /\ \A e \in Envs(first.out) : ~(e.to = c /\ e.op = "error")
                /\ \E e \in Envs(second.out) : e.to = d /\ e.op = "error"
                /\ \A e \in Envs(second.out) : ~(e.to = d /\ e.op = "joined")
                /\ OccupiesIn(second.st.rooms, c, k, r)

\* ------------------------------------------------------------------- C4
\* C4: a msg from an occupant of a room with both slots occupied makes the
\* server send exactly one envelope: a msg with the same type and body, to
\* the occupant of the other slot.
C4_ForwardFidelity ==
    [][\A c \in Conns, r \in Roles, t \in Types, b \in Bodies :
         \A i \in 1..Len(rooms) :
            (/\ Slot(rooms[i], r) = c
             /\ Slot(rooms[i], Other(r)) # 0
             /\ IsForwardStep(c, t, b))
            => Planned = <<Env(Slot(rooms[i], Other(r)), "msg", t, b)>>]_vars

\* The host of a room has forwarded a msg to the joiner and rests in the
\* send.
C4_Witness ==
    \E c, d \in Conns :
        /\ c # d
        /\ pc[c] = "fwd"
        /\ \E i \in 1..Len(rooms) : rooms[i].host = c /\ rooms[i].join = d
        /\ sent = <<Env(d, "msg", "pin_edge", "P2,15,1,1234")>>

\* ------------------------------------------------------------------- C5
\* C5: whenever the registry lock is free, every registered room has an
\* occupied slot.
C5_NoEmptyRoom ==
    rooms_lock = 0 => \A i \in 1..Len(rooms) : rooms[i].host # 0 \/ rooms[i].join # 0

\* ------------------------------------------------------------------- C6
\* C6 as stated: when the host of a room whose join slot holds b
\* disconnects, b is sent peer_left("peer disconnected") and the room key
\* is removed from the registry.
C6_DisconnectRemovesRoom ==
    [][\A c, b \in Conns : \A i \in 1..Len(rooms) :
         (rooms[i].host = c /\ rooms[i].join = b /\ b # 0 /\ IsDepartureStep(c))
            => /\ Planned = <<Env(b, "peer_left", "peer disconnected", "")>>
               /\ ~HasKey(rooms', rooms[i].key)]_vars

\* C6 as amended: when the host of a room whose join slot holds b
\* disconnects, b is sent peer_left("peer disconnected") and the room stays
\* registered under its key, at its place, with an empty host slot and b in
\* its join slot.
C6_DisconnectKeepsPeerRoom ==
    [][\A c, b \in Conns : \A i \in 1..Len(rooms) :
         (rooms[i].host = c /\ rooms[i].join = b /\ b # 0 /\ IsDepartureStep(c))
            => /\ Planned = <<Env(b, "peer_left", "peer disconnected", "")>>
               /\ rooms' = [rooms EXCEPT ![i].host = 0]]_vars

\* The host of r1 has disconnected and been closed; the joiner has been
\* told and is still in the registered room.
C6_Witness ==
    \E c, b \in Conns :
        /\ c # b /\ pc[c] = "closed" /\ room[b] = "r1" /\ role[b] = "join"
        /\ rooms = <<[key |-> "r1", host |-> 0, join |-> b]>>
        /\ sent = <<Env(b, "peer_left", "peer disconnected", "")>>

\* ------------------------------------------------------------------- C7
\* C7: an auto join attaches the connection to the join slot of the first
\* available auto room of the scan, under its registered key; with no
\* available room it is answered with an error and nothing changes.
C7_AutoJoinSelection ==
    [][\A c \in Conns :
         /\ (IsJoinStep(c, "auto", "join") /\ FirstAvailable(rooms) # "")
               => \/ pc'[c] = "attach" /\ req'[c].room = FirstAvailable(rooms)
                  \/ /\ OccupiesIn(rooms', c, FirstAvailable(rooms), "join")
                     /\ room'[c] = FirstAvailable(rooms) /\ role'[c] = "join"
                     /\ Env(c, "joined", FirstAvailable(rooms), "join") \in Envs(Planned)
         /\ (JoinAttach(c) /\ req[c].role = "join" /\ StartsWithAuto(req[c].room))
               => /\ OccupiesIn(rooms', c, req[c].room, "join")
                  /\ room'[c] = req[c].room /\ role'[c] = "join"
         /\ (IsJoinStep(c, "auto", "join") /\ FirstAvailable(rooms) = "")
               => /\ sent' = <<Env(c, "error", "No hosts currently waiting for a match", "")>>
                  /\ UNCHANGED <<rooms, room, role, name>>]_vars

\* ------------------------------------------------------------------- C8
\* C8: when a joins the unregistered room k as host and b then joins k as
\* join, a is sent joined(k, host) and then ready(peer = b's name), and b is
\* sent joined(k, join) and then ready(peer = a's name).
C8_HandshakeOrder ==
    \A a, b \in Conns, k \in NamedRooms :
        (a # b /\ rooms_lock = 0 /\ Reading(a) /\ Reading(b) /\ ~HasKey(rooms, k))
        => LET ja == JoinRoom(Core, a, JoinReq(k, "host", NameOf(a)))
               jb == JoinRoom(ja.st, b, JoinReq(k, "join", NameOf(b)))
           IN  /\ SentTo(ja.out, a) = <<Env(a, "joined", k, "host")>>
               /\ SentTo(jb.out, a) = <<Env(a, "ready", NameOf(b), "")>>
               /\ SentTo(jb.out, b) = <<Env(b, "joined", k, "join"),
                                        Env(b, "ready", NameOf(a), "")>>

\* ------------------------------------------------------------------- C9
\* C9: a step that answers a request with an error envelope changes
\* neither the registry nor any connection's room, role or name, and the
\* connection it answers stays open: its handler reads its next line, at
\* once or, when it rests in the send of the error, once that has returned.
C9_ErrorsChangeNothing ==
    [][\A e \in Envs(sent') :
         e.op = "error"
            => /\ UNCHANGED <<rooms, room, role, name>>
               /\ \/ pc'[e.to] = "idle"
                  \/ pc'[e.to] = "send" /\ req'[e.to].op # "close" /\ todo' = <<>>]_vars

\* A join for a host slot held by another connection has been refused.
C9_Witness ==
    \E c, d \in Conns :
        /\ c # d /\ pc[c] = "idle"
        /\ OccupiesIn(rooms, d, "r1", "host")
        /\ sent = <<Env(c, "error", "host slot already occupied", "")>>

\* ------------------------------------------------------------------ C10
\* C10: for every connection, client.room is set iff client.role is set.
C10_RoomIffRole ==
    \A c \in Conns : (room[c] = "") <=> (role[c] = "")

\* A connection is between the departure from its previous slot and the
\* attachment to its new one, and another connection holds a slot.
C10_Witness ==
    \E c, d \in Conns :
        /\ pc[c] = "attach" /\ room[c] = "" /\ role[c] = ""
        /\ room[d] # "" /\ role[d] # ""

\* ------------------------------------------------------------------ C11
\* C11: a join with room "auto" and role host creates its room under a key
\* the registry does not hold yet, and every slot of a registered room held
\* by another connection is still held by it, under the same key, afterwards.
C11_AutoHostKeyFresh ==
    [][\A c \in Conns :
         IsJoinStep(c, "auto", "host")
            => /\ ~HasKey(rooms, AutoKey(c))
               /\ \A d \in Conns \ {c}, r \in Roles : \A i \in 1..Len(rooms) :
                     Slot(rooms[i], r) = d => OccupiesIn(rooms', d, rooms[i].key, r)]_vars

\* ------------------------------------------------------------------ C12
\* C12: whenever a msg of connection c is forwarded to connection d, c and d
\* are held in the two opposite slots of one registered room.
C12_ForwardOnlyBetweenPairs ==
    [][\A c, d \in Conns, t \in Types, b \in Bodies :
         (IsForwardStep(c, t, b) /\ Env(d, "msg", t, b) \in Envs(sent'))
            => \E i \in 1..Len(rooms), r \in Roles :
                  Slot(rooms[i], r) = c /\ Slot(rooms[i], Other(r)) = d]_vars

\* ------------------------------------------------------------------ C13
\* C13: when c and d hold the two slots of a registered room and c
\* disconnects, d is sent exactly one peer_left, "peer disconnected"; when c
\* instead joins a slot and is not refused, d is sent exactly one peer_left,
\* "switched room", which is the first envelope the join writes (the joined
\* that follows the attachment comes after it), and an attachment that
\* follows the return of that send sends no further peer_left.
C13_DepartureNotified ==
    [][\A c \in Conns :
         /\ \A d \in Conns, r \in Roles : \A i \in 1..Len(rooms) :
              (Slot(rooms[i], r) = c /\ Slot(rooms[i], Other(r)) = d) =>
                 /\ IsDepartureStep(c)
                       => PeerLeftTo(Planned, d) = <<Env(d, "peer_left", "peer disconnected", "")>>
                 /\ (/\ \A e \in Envs(sent') : e.op # "error"
                     /\ \E rn \in RoomArgs, rl \in Roles : IsJoinStep(c, rn, rl))
                       => /\ PeerLeftTo(Planned, d) = <<Env(d, "peer_left", "switched room", "")>>
                          /\ Planned[1] = Env(d, "peer_left", "switched room", "")
         /\ JoinAttach(c) => \A e \in Envs(Planned) : e.op # "peer_left"]_vars

\* ------------------------------------------------------------------ C14
\* C14: whenever no handler is inside a critical section, a connection with
\* client.room = k and client.role = r is held in slot r of the room
\* registered under k.
C14_MembershipConsistent ==
    rooms_lock = 0 =>
        \A c \in Conns : room[c] # "" => OccupiesIn(rooms, c, room[c], role[c])

\* ------------------------------------------------------------------ C15
\* C15: while the handler of a connection is writing a forwarded msg to the
\* peer, the registry lock is free of it.
C15_LockFreeDuringForwardSend ==
    \A c \in Conns : pc[c] = "fwd" => rooms_lock # c

\* ------------------------------------------------------------------ C16
\* C16: after every step at most one slot of the registry holds a given
\* connection; a step that refuses a request with an error leaves every
\* slot of the registry as it was; and when a connection that holds a slot
\* is acknowledged with joined(k, r) for another slot, slot r of the room
\* registered under k holds it from that step on and no other slot does.
C16_SingleMembership ==
    [][/\ \A c \in Conns : Cardinality(SlotsOf(rooms', c)) <= 1
       /\ \A e \in Envs(sent') :
            /\ e.op = "error" => rooms' = rooms
            /\ (/\ e.op = "joined"
                /\ \E p \in SlotsOf(rooms, e.to) : p # <<KeyIndex(rooms, e.a), e.b>>)
                  => SlotsOf(rooms', e.to) = {<<KeyIndex(rooms', e.a), e.b>>}]_vars

\* ------------------------------------------------------------------ C17
\* The steps that acknowledge a join into a registered room whose two slots
\* are occupied afterwards: the positions of such rooms in the registry.
PairedByStep(out, rs) ==
    {i \in 1..Len(rs) :
        /\ rs[i].host # 0 /\ rs[i].join # 0
        /\ \E e \in Envs(out) : e.op = "joined" /\ e.a = rs[i].key}

\* The ready envelopes of `out`, in order.
Readys(out) == SelectSeq(out, LAMBDA e : e.op = "ready")

\* C17: a handler sends ready exactly when it acknowledges a join that
\* leaves both slots of the joined registered room occupied; it then sends
\* one ready to the host naming the joiner and one to the joiner naming the
\* host, after the joined, and ready is sent in no other case.  The readys
\* a handler has still to write when it rests in a send are written: every
\* step writes them or leaves them to be written.
C17_ReadyTrigger ==
    [][LET P == PairedByStep(Planned, rooms')
       IN  IF todo # <<>>
           THEN Readys(Planned) = Readys(todo)
           ELSE IF P = {} THEN Readys(Planned) = <<>>
           ELSE \A i \in P :
                   Readys(Planned) = <<Env(rooms'[i].host, "ready", name'[rooms'[i].join], ""),
                                       Env(rooms'[i].join, "ready", name'[rooms'[i].host], "")>>]_vars

\* ------------------------------------------------------------------ C18
\* The connection of c has ended and its handler has not closed it yet: it
\* waits for the lock to run the departure, or rests in the departure's
\* peer_left send.
Closing(c) == pc[c] \in {"lock", "send"} /\ req[c].op = "close"

\* The connection c has ended and its departure has been handled.
CleanedUp(c) ==
    /\ pc[c] = "closed"
    /\ SlotsOf(rooms, c) = {}
    /\ room[c] = "" /\ role[c] = ""

\* C18: once the end of a connection (end of input, I/O error or oversized
\* line) has been handled, no slot of the registry holds the connection and
\* its room and role are cleared; and with the lock scheduled fairly every
\* connection that has ended gets there.
C18_DisconnectCleanup ==
    /\ [](\A c \in Conns : pc[c] = "closed" => CleanedUp(c))
    /\ \A c \in Conns : Closing(c) ~> CleanedUp(c)

\* ------------------------------------------------------------------ C19
\* C19: in every reachable state, the departure procedure run for a
\* connection without room or role changes nothing and notifies nobody, and
\* run a second time right after a first run for any connection it changes
\* nothing more and notifies nobody.
C19_DepartureReentrant ==
    \A c \in Conns :
        LET once == RemoveClientLocked(Core, c)
            twice == RemoveClientLocked(once.st, c)
        IN  /\ (room[c] = "" \/ role[c] = "") => (once.st = Core /\ once.peer = 0)
            /\ twice.st = once.st
            /\ twice.peer = 0

\* A connection without a room is there, and two connections are paired in
\* a registered room: the first run for one of them notifies the other, and
\* the run for the other, then the sole occupant, pops the room.
C19_Witness ==
    \E c, d, x \in Conns :
        LET once == RemoveClientLocked(Core, c)
        IN  /\ c # d /\ room[x] = ""
            /\ once.peer = d
            /\ HasKey(once.st.rooms, room[d])
            /\ ~HasKey(RemoveClientLocked(once.st, d).st.rooms, room[d])

====
